---- MODULE Spec2Model ----
(***************************************************************************)
(* Model of the post-deploy plugin UpdateAPIGatewayIntegrationTimeout.     *)
(*                                                                         *)
(* The repository holds two variants of updateIntegrationTimeout():        *)
(*   "part_002" : src/unnamed/part_002 (lines 1-292), the verbose variant  *)
(*                with parseInt, partial-name and sole-gateway discovery;  *)
(*   "src"      : src/src/updateAPIGatewayIntegrationTimeout.js, the       *)
(*                 shorter variant (exact-name discovery only).            *)
(* The state variable `variant` says which of the two is running.          *)
(*                                                                         *)
(* One action models the code that runs between two awaits: the remote     *)
(* call, its answer (chosen with \E), and the synchronous code that        *)
(* follows up to the next await, return or throw.                          *)
(***************************************************************************)
EXTENDS Integers, Sequences, FiniteSets, TLC

(***************************************************************************)
(* JavaScript values of the configuration fields.  A value is a record     *)
(* [t, n]: t is the kind, n the number when t = "number" (0 otherwise).    *)
(* "string" stands for a non-numeric string such as "abc".                 *)
(***************************************************************************)
Undef == [t |-> "undefined", n |-> 0]
Null == [t |-> "null", n |-> 0]
NaN == [t |-> "NaN", n |-> 0]
Str == [t |-> "string", n |-> 0]
Num(i) == [t |-> "number", n |-> i]

IsNum(v) == v.t = "number"

\* parseInt(v, 10): an integer parses to itself, anything else here to NaN.
ParseInt(v) == IF IsNum(v) THEN Num(v.n) ELSE NaN

\* v * 1000 (ToNumber of a non-numeric string, of undefined or of NaN is NaN;
\* null is not a value of the fields multiplied here).
Times1000(v) == IF IsNum(v) THEN Num(v.n * 1000) ELSE NaN

\* a < b and a > b on these values: false as soon as one side is not a number.
Lt(a, b) == IsNum(a) /\ IsNum(b) /\ a.n < b.n
Gt(a, b) == IsNum(a) /\ IsNum(b) /\ a.n > b.n

\* Truthiness, as used by `x || y` and `!x`.
Truthy(v) == (v.t = "number" /\ v.n # 0) \/ v.t = "string"

DefaultTimeout == 29000
MinTimeout == 50

(***************************************************************************)
(* Strings that the code searches or compares are sequences of characters; *)
(* String.prototype.includes is contiguous-subsequence containment.        *)
(***************************************************************************)
Includes(s, sub) ==
    \E i \in 0..(Len(s) - Len(sub)) :
        \A j \in 1..Len(sub) : s[i + j] = sub[j]

sService == <<"s", "v", "c">>
sDev == <<"d", "e", "v">>
sRestApi == <<"R", "e", "s", "t", "A", "p", "i">>
sId == <<"I", "d">>
sApiGateway == <<"A", "p", "i", "G", "a", "t", "e", "w", "a", "y">>
sRestApiId == sRestApi \o sId
sApiGatewayRestApi == sApiGateway \o sRestApi

\* `${service.service}-${stage}`: the stack name and the API name hint.
NameOf(svc, stg) == svc \o <<"-">> \o stg

(***************************************************************************)
(* The timeout resolver (the synchronous head of updateIntegrationTimeout) *)
(***************************************************************************)
\* Mutant: the custom field is tested for truthiness instead of !== undefined.
RequestedTimeoutTruthy(var, cust, prov) ==
    IF Truthy(cust.apiGatewayIntegrationTimeout)
    THEN ParseInt(cust.apiGatewayIntegrationTimeout)
    ELSE IF prov # Undef THEN Times1000(ParseInt(prov)) ELSE Num(DefaultTimeout)

RequestedTimeout(var, cust, prov) ==
    IF var = "part_002"
    THEN LET r0 == IF cust.apiGatewayIntegrationTimeout # Undef
                   THEN ParseInt(cust.apiGatewayIntegrationTimeout)
                   ELSE Null
             r1 == IF r0 = Null /\ prov # Undef
                   THEN Times1000(ParseInt(prov))
                   ELSE r0
         IN  IF r1 = Null THEN Num(DefaultTimeout) ELSE r1
    ELSE IF cust.apiGatewayIntegrationTimeout # Undef
         THEN cust.apiGatewayIntegrationTimeout
         ELSE IF prov # Undef THEN Times1000(prov) ELSE Num(DefaultTimeout)

MaxTimeout(var, cust) ==
    IF var = "part_002"
    THEN IF cust.apiGatewayMaxTimeout # Undef
         THEN LET parsedMax == ParseInt(cust.apiGatewayMaxTimeout)
              IN  IF parsedMax # NaN THEN parsedMax ELSE Num(DefaultTimeout)
         ELSE Num(DefaultTimeout)
    ELSE IF Truthy(cust.apiGatewayMaxTimeout)
         THEN cust.apiGatewayMaxTimeout
         ELSE Num(DefaultTimeout)

\* Mutant: the upper clamp is missing.
ClampTimeoutNoUpper(req, max) ==
    IF Lt(req, Num(MinTimeout)) THEN Num(MinTimeout) ELSE req

\* Mutant: the two clamps are applied in the other order.
ClampTimeoutFloorLast(req, max) ==
    LET t1 == IF Gt(req, max) THEN max ELSE req
    IN  IF Lt(t1, Num(MinTimeout)) THEN Num(MinTimeout) ELSE t1

ClampTimeout(req, max) ==
    LET t1 == IF Lt(req, Num(MinTimeout)) THEN Num(MinTimeout) ELSE req
    IN  IF Gt(t1, max) THEN max ELSE t1

(***************************************************************************)
(* Identifiers, remote answers and errors                                  *)
(***************************************************************************)
\* A REST API id is an opaque non-empty value; NoId is `undefined`.
ApiId(i) == <<"api", i>>
NoId == <<>>

\* An Error is its message: a sequence of pieces, literal texts and the
\* characters of interpolated strings.
NoError == <<>>
NoResult == [kind |-> "none", Outputs |-> <<>>]
NoApis == [kind |-> "none", items |-> <<>>]
NoResources == [kind |-> "none", items |-> <<>>]

\* Bounds of the remote answers.
MaxOutputs == 2
MaxApis == 2
MaxResources == 2
MaxMethods == 2

SeqsUpTo(S, n) == UNION {[1..k -> S] : k \in 0..n}

\* Output keys of a CloudFormation stack: "Endpoint", "RestApi" (a near
\* miss), "MyRestApiId", "ApiGatewayRestApiRoot".
OutputKeys ==
    { <<"E", "n", "d", "p", "o", "i", "n", "t">>,
      sRestApi,
      <<"M", "y">> \o sRestApiId,
      sApiGatewayRestApi \o <<"R", "o", "o", "t">> }

StackOutputs == [OutputKey : OutputKeys, OutputValue : {ApiId(1), ApiId(2)}]

\* describeStacks answers: a rejection, a stack description without Outputs
\* (or without Stacks), or a description with Outputs.
StackAnswers ==
    { [kind |-> "error", Outputs |-> <<>>], [kind |-> "noOutputs", Outputs |-> <<>>] }
    \cup [kind : {"outputs"}, Outputs : SeqsUpTo(StackOutputs, MaxOutputs)]

\* REST API names: "svc-dev", "dev-svc", "svc-dev-v2", "svc-prod", "other".
ApiNames ==
    { NameOf(sService, sDev),
      NameOf(sDev, sService),
      NameOf(sService, sDev) \o <<"-", "v", "2">>,
      NameOf(sService, <<"p", "r", "o", "d">>),
      <<"o", "t", "h", "e", "r">> }

\* getRestApis answers: the i-th item of a listing has the id ApiId(i).
ApiListings ==
    { [i \in 1..Len(names) |-> [id |-> ApiId(i), name |-> names[i]]] :
        names \in SeqsUpTo(ApiNames, MaxApis) }

ApisAnswers ==
    { [kind |-> "error", items |-> <<>>] }
    \cup [kind : {"items"}, items : ApiListings]

\* The discovery answers of the whole-run specification: a rejection or one hit.
RunStackAnswers ==
    { [kind |-> "error", Outputs |-> <<>>],
      [kind |-> "outputs",
       Outputs |-> <<[OutputKey |-> <<"M", "y">> \o sRestApiId, OutputValue |-> ApiId(1)]>>] }

RunApisAnswers ==
    { [kind |-> "error", items |-> <<>>],
      [kind |-> "items",
       items |-> <<[id |-> ApiId(2), name |-> <<"o", "t", "h", "e", "r">>],
                   [id |-> ApiId(1), name |-> NameOf(sService, sDev)]>>] }

RemoteErrorMessage == <<"remote call rejected">>

(***************************************************************************)
(* Gateway discovery                                                       *)
(***************************************************************************)
KeyMatches(key) == Includes(key, sRestApiId) \/ Includes(key, sApiGatewayRestApi)

\* Array.prototype.find on the stack outputs: index of the first match, 0 if none.
FindRestApiOutput(outputs) ==
    LET hits == {i \in 1..Len(outputs) : KeyMatches(outputs[i].OutputKey)}
    IN  IF hits = {} THEN 0 ELSE CHOOSE i \in hits : \A j \in hits : i <= j

\* Mutant: the last matching output is taken.
IdFromStackLast(answer) ==
    IF answer.kind = "outputs"
    THEN LET hits == {i \in 1..Len(answer.Outputs) : KeyMatches(answer.Outputs[i].OutputKey)}
         IN  IF hits = {} THEN NoId
             ELSE answer.Outputs[CHOOSE i \in hits : \A j \in hits : i >= j].OutputValue
    ELSE NoId

\* restApiId after the describeStacks try block (a rejection is caught and logged).
IdFromStack(answer) ==
    IF answer.kind = "outputs"
    THEN LET k == FindRestApiOutput(answer.Outputs)
         IN  IF k = 0 THEN NoId ELSE answer.Outputs[k].OutputValue
    ELSE NoId

FirstOf(S) == CHOOSE i \in S : \A j \in S : i <= j

ExactMatches(items, apiName) == {i \in 1..Len(items) : items[i].name = apiName}

PartialMatches(items, svc, stg) ==
    {i \in 1..Len(items) : Includes(items[i].name, svc) /\ Includes(items[i].name, stg)}

WrapNotFound(msg) == <<"Could not find REST API ID: ">> \o msg

Located(id, src) == [id |-> id, source |-> src, error |-> NoError]
NotLocated(msg) == [id |-> NoId, source |-> "None", error |-> WrapNotFound(msg)]

\* Mutant: the partial match is tried before the exact match.
LocateFromListingPartialFirst(var, answer, svc, stg) ==
    LET items == answer.items
        apiName == NameOf(svc, stg)
        exact == ExactMatches(items, apiName)
        partial == PartialMatches(items, svc, stg)
    IN  IF answer.kind = "error" THEN NotLocated(RemoteErrorMessage)
        ELSE IF var = "part_002" /\ Len(items) = 0
        THEN NotLocated(<<"No REST APIs found in the account">>)
        ELSE IF var = "part_002" /\ partial # {}
        THEN Located(items[FirstOf(partial)].id, "PartialNameMatch")
        ELSE IF exact # {} THEN Located(items[FirstOf(exact)].id, "ExactNameMatch")
        ELSE IF var = "part_002" /\ Len(items) = 1
        THEN Located(items[1].id, "SoleGateway")
        ELSE NotLocated(<<"Could not find API with name: ">> \o apiName)

\* Mutant: the sole-gateway fallback takes any non-empty listing's first item.
LocateFromListingAnyFirst(var, answer, svc, stg) ==
    LET items == answer.items
        apiName == NameOf(svc, stg)
        exact == ExactMatches(items, apiName)
        partial == PartialMatches(items, svc, stg)
    IN  IF answer.kind = "error" THEN NotLocated(RemoteErrorMessage)
        ELSE IF var = "part_002" /\ Len(items) = 0
        THEN NotLocated(<<"No REST APIs found in the account">>)
        ELSE IF exact # {} THEN Located(items[FirstOf(exact)].id, "ExactNameMatch")
        ELSE IF var = "part_002" /\ partial # {}
        THEN Located(items[FirstOf(partial)].id, "PartialNameMatch")
        ELSE IF var = "part_002" /\ Len(items) >= 1
        THEN Located(items[1].id, "SoleGateway")
        ELSE NotLocated(<<"Could not find API with name: ">> \o apiName)

\* Mutant: the sole-gateway fallback is missing.
LocateFromListingNoSole(var, answer, svc, stg) ==
    LET items == answer.items
        apiName == NameOf(svc, stg)
        exact == ExactMatches(items, apiName)
        partial == PartialMatches(items, svc, stg)
    IN  IF answer.kind = "error" THEN NotLocated(RemoteErrorMessage)
        ELSE IF var = "part_002" /\ Len(items) = 0
        THEN NotLocated(<<"No REST APIs found in the account">>)
        ELSE IF exact # {} THEN Located(items[FirstOf(exact)].id, "ExactNameMatch")
        ELSE IF var = "part_002" /\ partial # {}
        THEN Located(items[FirstOf(partial)].id, "PartialNameMatch")
        ELSE NotLocated(<<"Could not find API with name: ">> \o apiName)

\* The getRestApis try block: the id found, or the Error thrown out of it.
LocateFromListing(var, answer, svc, stg) ==
    LET items == answer.items
        apiName == NameOf(svc, stg)
        exact == ExactMatches(items, apiName)
        partial == PartialMatches(items, svc, stg)
    IN  IF answer.kind = "error" THEN NotLocated(RemoteErrorMessage)
        ELSE IF var = "part_002" /\ Len(items) = 0
        THEN NotLocated(<<"No REST APIs found in the account">>)
        ELSE IF exact # {} THEN Located(items[FirstOf(exact)].id, "ExactNameMatch")
        ELSE IF var = "part_002" /\ partial # {}
        THEN Located(items[FirstOf(partial)].id, "PartialNameMatch")
        ELSE IF var = "part_002" /\ Len(items) = 1
        THEN Located(items[1].id, "SoleGateway")
        ELSE NotLocated(<<"Could not find API with name: ">> \o apiName)

(***************************************************************************)
(* The resource tree and the answers of the per-method calls               *)
(***************************************************************************)
MethodNames == <<"GET", "POST", "PUT", "DELETE", "PATCH", "HEAD", "OPTIONS">>

\* A resource: resourceMethods is absent (hasMethods = FALSE) or an object
\* whose keys, in Object.keys order, are `methods`.
ResourceShapes ==
    { [hasMethods |-> FALSE, methods |-> <<>>] }
    \cup { [hasMethods |-> TRUE, methods |-> SubSeq(MethodNames, 1, k)] : k \in 0..MaxMethods }

ResourceTrees ==
    { [i \in 1..Len(shapes) |->
          [id |-> <<"res", i>>, hasMethods |-> shapes[i].hasMethods,
           methods |-> shapes[i].methods]] :
        shapes \in SeqsUpTo(ResourceShapes, MaxResources) }

\* getResources answers: a rejection, an answer without items, or the items.
ResourcesAnswers ==
    { [kind |-> "error", items |-> <<>>], [kind |-> "noItems", items |-> <<>>] }
    \cup [kind : {"items"}, items : ResourceTrees]

\* Messages of a rejected updateIntegration.  NoMessage: an error without message.
NoMessage == <<"<no message>">>
sBetween == "between 50 ms and"
sMs == " ms"
UpdateErrorMessages ==
    { <<"Timeout should be ", sBetween, " ", "6", "0", "0", "0", "0", sMs>>,
      <<"Timeout should be ", sBetween, " ", "2", "9", sMs, " for this account">>,
      <<"Timeout should be ", sBetween, " ", "x", sMs>>,
      <<sBetween, " ", "6", "0">>,
      <<"Internal failure">>,
      NoMessage }

Digits == <<"0", "1", "2", "3", "4", "5", "6", "7", "8", "9">>
IsDigit(c) == \E d \in 1..10 : Digits[d] = c
DigitValue(c) == (CHOOSE d \in 1..10 : Digits[d] = c) - 1

RECURSIVE ToDigits(_)
ToDigits(n) == IF n < 10 THEN <<Digits[n + 1]>> ELSE ToDigits(n \div 10) \o <<Digits[(n % 10) + 1]>>

\* `${v}`: the decimal representation of a number, the text of anything else.
ToStr(v) ==
    IF IsNum(v) THEN (IF v.n < 0 THEN <<"-">> \o ToDigits(-v.n) ELSE ToDigits(v.n))
    ELSE IF v.t = "string" THEN <<"a", "b", "c">>
    ELSE <<v.t>>

RECURSIVE DecimalValue(_)
DecimalValue(ds) ==
    IF Len(ds) = 0 THEN 0
    ELSE 10 * DecimalValue(SubSeq(ds, 1, Len(ds) - 1)) + DigitValue(ds[Len(ds)])

\* error.message.match(/between 50 ms and (\d+) ms/): the places <<i, j>> where
\* the text is followed by a blank, the digits i+2..j and " ms".
QuotaMatches(msg) ==
    { <<i, j>> \in (1..Len(msg)) \X (1..Len(msg)) :
        /\ msg[i] = sBetween
        /\ i + 2 <= j /\ j + 1 <= Len(msg)
        /\ msg[i + 1] = " "
        /\ \A k \in (i + 2)..j : IsDigit(msg[k])
        /\ msg[j + 1] = sMs }

\* Mutant: the ceiling is not parsed, the rejection is rethrown as it is.
UpdateErrorRethrown(msg) == msg

\* Mutant: every message holding "between 50 ms and" is taken for a quota error.
UpdateErrorLoose(msg) ==
    IF msg # NoMessage /\ (\E i \in 1..Len(msg) : msg[i] = sBetween)
    THEN LET ds == SelectSeq(msg, IsDigit)
         IN  <<"Timeout exceeds your account's service quota limit of ">>
                 \o ToStr(Num(DecimalValue(ds))) \o <<sMs>>
    ELSE msg

\* The Error thrown out of the catch block of updateIntegration.
UpdateError(msg) ==
    IF msg # NoMessage /\ (\E i \in 1..Len(msg) : msg[i] = sBetween) /\ QuotaMatches(msg) # {}
    THEN LET m == CHOOSE m \in QuotaMatches(msg) :
                      \A o \in QuotaMatches(msg) : m[1] < o[1] \/ (m[1] = o[1] /\ m[2] >= o[2])
             actualMaxTimeout == DecimalValue(SubSeq(msg, m[1] + 2, m[2]))
         IN  <<"Timeout exceeds your account's service quota limit of ">>
                 \o ToStr(Num(actualMaxTimeout)) \o <<sMs>>
    ELSE msg

(***************************************************************************)
(* State                                                                   *)
(***************************************************************************)
VARIABLES
    variant,              \* which of the two source variants runs
    custom,               \* service.custom: the three recognised options
    providerTimeout,      \* service.provider.timeout
    service,              \* service.service
    stage,                \* options.stage || service.provider.stage
    pc,                   \* the await (or end) the run stands at
    requestedTimeout, maxTimeout, timeout,
    restApiId,
    source,               \* which discovery branch set restApiId (its log line)
    result,               \* describeStacks answer while in scope
    apis,                 \* getRestApis answer while in scope
    apiGatewayResources,  \* getResources answer
    ri, mi,               \* resource and method the loops stand at
    updateCount,
    refs,                 \* the method details fetched so far: <<target, hasIntegration>>
    rejection,            \* the error caught by the catch block of updateIntegration
    thrown,               \* the Error thrown out of updateIntegrationTimeout
    calls,                \* the remote calls issued so far, in order
    patched,              \* remote state: timeout value set per <<resource, method>>
    deployments,          \* remote state: descriptions of the deployments created
    previous,             \* what the run before this one fetched and left on the gateway
    http,                 \* event-level plugin: the http event being compiled
    original,             \* event-level plugin: what the original getMethodIntegration returns
    integration           \* event-level plugin: what the wrapped getMethodIntegration returns

vars == <<variant, custom, providerTimeout, service, stage, pc, requestedTimeout,
          maxTimeout, timeout, restApiId, source, result, apis, apiGatewayResources,
          ri, mi, updateCount, refs, rejection, thrown, calls, patched, deployments,
          previous, http, original, integration>>

config == <<variant, custom, providerTimeout, service, stage>>
resolved == <<requestedTimeout, maxTimeout, timeout>>
walk == <<apiGatewayResources, ri, mi, updateCount, refs, rejection, patched, deployments>>
\* What no step of one run of updateIntegrationTimeout touches.
outside == <<previous, http, original, integration>>

Call(op, arg, ok) == [op |-> op, arg |-> arg, ok |-> ok]

Variants == {"part_002", "src"}

\* Configurations of the resolver specification.
RequestedValues ==
    {Undef, Str} \cup {Num(i) : i \in {-1, 0, 49, 50, 51, 15000, 29000, 29001, 60000, 90000}}
ProviderValues == {Undef, Str} \cup {Num(i) : i \in {0, 29, 45, 60}}
MaxValues == {Undef, Str} \cup {Num(i) : i \in {-5, 0, 10, 49, 50, 51, 29000, 60000}}

\* Configurations of the run specifications.
RunRequestedValues == {Num(90000)}
RunMaxValues == {Num(60000)}
ExplicitIds == {NoId, ApiId(3)}

\* No run came before this one.
NoPrevious == [pc |-> "none", items |-> <<>>, refs |-> <<>>, patched |-> {}]

\* http.integration left unset.
NoType == "<unset>"

\* The http events of the event-level plugin: timeout in seconds, integration type.
EventTimeouts == {Undef, Null} \cup {Num(i) : i \in {-1, 0, 1, 29, 30, 60, 120}}
EventTypes == {NoType, "AWS", "LAMBDA", "AWS_PROXY", "HTTP", "HTTP_PROXY", "MOCK"}

\* integration.Properties.Integration as the original getMethodIntegration builds it.
OriginalIntegrations ==
    [IntegrationHttpMethod : {"POST"}, TimeoutInMillis : {Undef, Num(5000)}]

NoEvent == [timeout |-> Undef, integration |-> NoType]
NoIntegration == [IntegrationHttpMethod |-> "POST", TimeoutInMillis |-> Undef]

\* The run specifications: no earlier run, no http event being compiled.
InitOutside ==
    /\ previous = NoPrevious
    /\ http = NoEvent
    /\ original = NoIntegration
    /\ integration = NoIntegration

InitWith(reqs, provs, maxs, ids) ==
    /\ variant \in Variants
    /\ custom \in [apiGatewayIntegrationTimeout : reqs, apiGatewayMaxTimeout : maxs,
                   apiGatewayId : ids]
    /\ providerTimeout \in provs
    /\ service = sService
    /\ stage = sDev
    /\ pc = "resolve"
    /\ requestedTimeout = Null
    /\ maxTimeout = Num(DefaultTimeout)
    /\ timeout = Null
    /\ restApiId = NoId
    /\ source = "None"
    /\ result = NoResult
    /\ apis = NoApis
    /\ apiGatewayResources = NoResources
    /\ ri = 0
    /\ mi = 0
    /\ updateCount = 0
    /\ refs = <<>>
    /\ rejection = NoError
    /\ thrown = NoError
    /\ calls = <<>>
    /\ patched = {}
    /\ deployments = <<>>
    /\ InitOutside

InitResolve == InitWith(RequestedValues, ProviderValues, MaxValues, {NoId})
Init == InitWith(RunRequestedValues, {Undef}, RunMaxValues, ExplicitIds)
\* The runs of part_002.
InitLive == Init /\ variant = "part_002"

(***************************************************************************)
(* Actions                                                                 *)
(***************************************************************************)
\* Mutant: the configured id does not bypass discovery.
FirstAwaitAlwaysDiscovers(id) == "describeStacks"

\* Mutant: discovery is skipped whether or not an id is configured.
FirstAwaitSkipsDiscovery(id) == "getResources"

\* `if (!restApiId)` on the configured id: the first await of the run.
FirstAwait(id) == IF id # NoId THEN "getResources" ELSE "describeStacks"

\* Lines 14-102 of part_002 (14-70 of src): everything before the first await.
Resolve ==
    /\ pc = "resolve"
    /\ requestedTimeout' = RequestedTimeout(variant, custom, providerTimeout)
    /\ maxTimeout' = MaxTimeout(variant, custom)
    /\ timeout' = ClampTimeout(requestedTimeout', maxTimeout')
    /\ restApiId' = custom.apiGatewayId
    /\ source' = IF custom.apiGatewayId # NoId THEN "Explicit" ELSE "None"
    /\ pc' = FirstAwait(custom.apiGatewayId)
    /\ UNCHANGED <<config, outside, result, apis, walk, thrown, calls>>

\* Mutant: the catch block of describeStacks rethrows.
DescribeStacksFromRethrowing(answers) ==
    /\ pc = "describeStacks"
    /\ \E answer \in answers :
        /\ calls' = Append(calls, Call("describeStacks", <<NameOf(service, stage)>>,
                                       answer.kind # "error"))
        /\ result' = answer
        /\ restApiId' = IdFromStack(answer)
        /\ source' = IF restApiId' # NoId THEN "StackOutput" ELSE "None"
        /\ thrown' = IF answer.kind = "error" THEN RemoteErrorMessage ELSE NoError
        /\ pc' = IF answer.kind = "error" THEN "failed"
                 ELSE IF restApiId' # NoId THEN "getResources" ELSE "getRestApis"
    /\ UNCHANGED <<config, outside, resolved, apis, walk>>

\* The describeStacks await and its try/catch, which logs and goes on.
DescribeStacksFrom(answers) ==
    /\ pc = "describeStacks"
    /\ \E answer \in answers :
        /\ calls' = Append(calls, Call("describeStacks", <<NameOf(service, stage)>>,
                                       answer.kind # "error"))
        /\ result' = answer
        /\ restApiId' = IdFromStack(answer)
        /\ source' = IF restApiId' # NoId THEN "StackOutput" ELSE "None"
        /\ pc' = IF restApiId' # NoId THEN "getResources" ELSE "getRestApis"
    /\ UNCHANGED <<config, outside, resolved, apis, walk, thrown>>

DescribeStacks == DescribeStacksFrom(StackAnswers)
DescribeStacksRun == DescribeStacksFrom(RunStackAnswers)

\* The getRestApis await and its try/catch, which rethrows.
GetRestApisFrom(answers) ==
    /\ pc = "getRestApis"
    /\ \E answer \in answers :
        LET loc == LocateFromListing(variant, answer, service, stage)
        IN  /\ calls' = Append(calls, Call("getRestApis", <<>>, answer.kind # "error"))
            /\ apis' = answer
            /\ restApiId' = loc.id
            /\ source' = loc.source
            /\ thrown' = loc.error
            /\ pc' = IF loc.error # NoError THEN "failed" ELSE "getResources"
    /\ result' = NoResult
    /\ UNCHANGED <<config, outside, resolved, walk>>

GetRestApis == GetRestApisFrom(ApisAnswers)
GetRestApisRun == GetRestApisFrom(RunApisAnswers)

\* Mutant: the inner loop stops after the first method of a resource.
NextPosFirstMethodOnly(items, r, m) ==
    LET later == { p \in (1..Len(items)) \X {1} :
                     /\ items[p[1]].hasMethods
                     /\ p[2] <= Len(items[p[1]].methods)
                     /\ (p[1] > r \/ (p[1] = r /\ p[2] > m)) }
    IN  IF later = {} THEN <<0, 0>>
        ELSE CHOOSE p \in later : \A q \in later : p[1] <= q[1]

\* The position after <<r, m>> in the two nested loops: the next method of a
\* resource that has resourceMethods; <<0, 0>> when the loops are over.
NextPos(items, r, m) ==
    LET later == { p \in (1..Len(items)) \X (1..MaxMethods + 1) :
                     /\ items[p[1]].hasMethods
                     /\ p[2] <= Len(items[p[1]].methods)
                     /\ (p[1] > r \/ (p[1] = r /\ p[2] > m)) }
    IN  IF later = {} THEN <<0, 0>>
        ELSE CHOOSE p \in later :
                 \A q \in later : p[1] < q[1] \/ (p[1] = q[1] /\ p[2] <= q[2])

\* Mutant: the deployment is created even when nothing was updated.
PcAtAlwaysDeploys(p, n) ==
    IF p # <<0, 0>> THEN "getMethod" ELSE "createDeployment"

\* Mutant: the deployment is created as soon as one integration is updated.
PcAtDeployEarly(p, n) ==
    IF n > 0 THEN "createDeployment"
    ELSE IF p # <<0, 0>> THEN "getMethod" ELSE "done"

\* Mutant: the deployment is never created.
PcAtNeverDeploys(p, n) ==
    IF p # <<0, 0>> THEN "getMethod" ELSE "done"

\* Mutant: after the last pair the function awaits something that never settles.
PcAtNeverSettles(p, n) ==
    IF p # <<0, 0>> THEN "getMethod"
    ELSE IF n = 0 THEN "done" ELSE "pending"

\* Mutant: the pairs are patched without their details being fetched.
PcAtPatchesUnfetched(p, n) ==
    IF p # <<0, 0>> THEN "updateIntegration"
    ELSE IF n = 0 THEN "done" ELSE "createDeployment"

\* Where the run stands once the loops have moved to position p with count n.
PcAt(p, n) ==
    IF p # <<0, 0>> THEN "getMethod"
    ELSE IF n = 0 THEN "done" ELSE "createDeployment"

\* What getResources can answer: anything in a first run; in a run after
\* another, a rejection or the tree the gateway had in that run.
TreeAnswers ==
    IF previous = NoPrevious THEN ResourcesAnswers
    ELSE { [kind |-> "error", items |-> <<>>],
           [kind |-> "items", items |-> previous.items] }

\* The getResources await, the empty-answer return and the entry of the loops.
GetResources ==
    /\ pc = "getResources"
    /\ \E answer \in TreeAnswers :
        /\ calls' = Append(calls, Call("getResources", <<restApiId>>, answer.kind # "error"))
        /\ apiGatewayResources' = answer
        /\ IF answer.kind = "error"
           THEN /\ thrown' = RemoteErrorMessage
                /\ pc' = "failed"
                /\ UNCHANGED <<ri, mi>>
           ELSE IF answer.kind = "noItems" /\ variant = "src"
           THEN /\ thrown' = <<"apiGatewayResources.items is not iterable">>
                /\ pc' = "failed"
                /\ UNCHANGED <<ri, mi>>
           ELSE IF variant = "part_002" /\ (answer.kind = "noItems" \/ Len(answer.items) = 0)
           THEN /\ pc' = "done"
                /\ UNCHANGED <<ri, mi, thrown>>
           ELSE LET p == NextPos(answer.items, 1, 0)
                IN  /\ ri' = p[1]
                    /\ mi' = p[2]
                    /\ pc' = PcAt(p, 0)
                    /\ UNCHANGED thrown
    /\ result' = NoResult
    /\ apis' = NoApis
    /\ UNCHANGED <<config, outside, resolved, restApiId, source, updateCount, refs, rejection,
                   patched, deployments>>

CurrentResource == apiGatewayResources.items[ri]
CurrentMethod == CurrentResource.methods[mi]
\* Mutant: the calls of the walk name the configured id, not the one located.
CurrentTargetConfigured == <<custom.apiGatewayId, CurrentResource.id, CurrentMethod>>

CurrentTarget == <<restApiId, CurrentResource.id, CurrentMethod>>

\* Mutant: the method is patched whatever its details say.
HasIntegrationAlways(answer) == answer # "error"

\* `if (methodDetails.methodIntegration)`.
HasIntegration(answer) == answer = "integration"

\* What getMethod can answer for the pair the loops stand at: anything, unless
\* the run before fetched the details of that pair; then a rejection or the
\* same details.
DetailAnswers ==
    LET before == { k \in DOMAIN previous.refs : previous.refs[k][1] = CurrentTarget }
    IN  IF before = {} THEN {"error", "noIntegration", "integration"}
        ELSE {"error"} \cup { IF previous.refs[k][2] THEN "integration" ELSE "noIntegration" :
                                k \in before }

\* The getMethod await of one loop iteration.
GetMethod ==
    /\ pc = "getMethod"
    /\ \E answer \in DetailAnswers :
        /\ calls' = Append(calls, Call("getMethod", CurrentTarget, answer # "error"))
        /\ IF answer = "error"
           THEN /\ thrown' = RemoteErrorMessage
                /\ pc' = "failed"
                /\ UNCHANGED <<ri, mi, refs>>
           ELSE /\ refs' = Append(refs, <<CurrentTarget, answer = "integration">>)
                /\ IF HasIntegration(answer)
                   THEN pc' = "updateIntegration" /\ UNCHANGED <<ri, mi, thrown>>
                   ELSE LET p == NextPos(apiGatewayResources.items, ri, mi)
                        IN  /\ ri' = p[1]
                            /\ mi' = p[2]
                            /\ pc' = PcAt(p, updateCount)
                            /\ UNCHANGED thrown
    /\ UNCHANGED <<config, outside, resolved, restApiId, source, result, apis, apiGatewayResources,
                   updateCount, rejection, patched, deployments>>

\* Mutant: the patch raises the timeout by the number of integrations the
\* gateway already has one set on.
PatchOperationsOnTop(t) ==
    <<[op |-> "replace", path |-> "/timeoutInMillis",
       value |-> ToStr(Num(t.n + Cardinality(patched)))]>>

\* Mutant: the timeout is sent in seconds.
PatchOperationsInSeconds(t) ==
    <<[op |-> "replace", path |-> "/timeoutInMillis", value |-> ToStr(Num(t.n \div 1000))]>>

\* updateIntegrationParams.patchOperations.
PatchOperations(t) ==
    <<[op |-> "replace", path |-> "/timeoutInMillis", value |-> ToStr(t)]>>

\* Mutant: a rejected patch is logged and the loops go on.
UpdateIntegrationContinuing ==
    /\ pc = "updateIntegration"
    /\ \E answer \in {<<>>} \cup UpdateErrorMessages :
        LET p == NextPos(apiGatewayResources.items, ri, mi)
        IN  /\ calls' = Append(calls, Call("updateIntegration",
                                   CurrentTarget \o <<PatchOperations(timeout)>>, answer = <<>>))
            /\ rejection' = answer
            /\ ri' = p[1]
            /\ mi' = p[2]
            /\ IF answer = <<>>
               THEN /\ patched' = patched \cup
                            {[target |-> CurrentTarget, op |-> PatchOperations(timeout)[1].op,
                              path |-> PatchOperations(timeout)[1].path,
                              value |-> PatchOperations(timeout)[1].value]}
                    /\ updateCount' = updateCount + 1
                    /\ pc' = PcAt(p, updateCount')
               ELSE /\ pc' = PcAt(p, updateCount)
                    /\ UNCHANGED <<updateCount, patched>>
    /\ UNCHANGED <<config, outside, resolved, restApiId, source, result, apis, apiGatewayResources,
                   refs, thrown, deployments>>

\* Mutant: updateCount++ stands before the await and counts rejected patches too.
UpdateIntegrationCountingFirst ==
    /\ pc = "updateIntegration"
    /\ \E answer \in {<<>>} \cup UpdateErrorMessages :
        /\ calls' = Append(calls, Call("updateIntegration",
                               CurrentTarget \o <<PatchOperations(timeout)>>, answer = <<>>))
        /\ rejection' = answer
        /\ updateCount' = updateCount + 1
        /\ IF answer = <<>>
           THEN LET p == NextPos(apiGatewayResources.items, ri, mi)
                IN  /\ patched' = patched \cup
                            {[target |-> CurrentTarget, op |-> PatchOperations(timeout)[1].op,
                              path |-> PatchOperations(timeout)[1].path,
                              value |-> PatchOperations(timeout)[1].value]}
                    /\ ri' = p[1]
                    /\ mi' = p[2]
                    /\ pc' = PcAt(p, updateCount')
                    /\ UNCHANGED thrown
           ELSE /\ thrown' = UpdateError(answer)
                /\ pc' = "failed"
                /\ UNCHANGED <<ri, mi, patched>>
    /\ UNCHANGED <<config, outside, resolved, restApiId, source, result, apis, apiGatewayResources,
                   refs, deployments>>

\* Mutant: a rejected patch undoes the patches applied before it.
UpdateIntegrationRollingBack ==
    /\ pc = "updateIntegration"
    /\ \E answer \in {<<>>} \cup UpdateErrorMessages :
        /\ calls' = Append(calls, Call("updateIntegration",
                               CurrentTarget \o <<PatchOperations(timeout)>>, answer = <<>>))
        /\ rejection' = answer
        /\ IF answer = <<>>
           THEN LET p == NextPos(apiGatewayResources.items, ri, mi)
                IN  /\ patched' = patched \cup
                            {[target |-> CurrentTarget, op |-> PatchOperations(timeout)[1].op,
                              path |-> PatchOperations(timeout)[1].path,
                              value |-> PatchOperations(timeout)[1].value]}
                    /\ updateCount' = updateCount + 1
                    /\ ri' = p[1]
                    /\ mi' = p[2]
                    /\ pc' = PcAt(p, updateCount')
                    /\ UNCHANGED thrown
           ELSE /\ thrown' = UpdateError(answer)
                /\ pc' = "failed"
                /\ patched' = {}
                /\ UNCHANGED <<ri, mi, updateCount>>
    /\ UNCHANGED <<config, outside, resolved, restApiId, source, result, apis, apiGatewayResources,
                   refs, deployments>>

\* The updateIntegration await of one loop iteration and its catch block.
UpdateIntegration ==
    /\ pc = "updateIntegration"
    /\ \E answer \in {<<>>} \cup UpdateErrorMessages :
        /\ calls' = Append(calls, Call("updateIntegration",
                               CurrentTarget \o <<PatchOperations(timeout)>>, answer = <<>>))
        /\ rejection' = answer
        /\ IF answer = <<>>
           THEN LET p == NextPos(apiGatewayResources.items, ri, mi)
                IN  /\ patched' = patched \cup
                            {[target |-> CurrentTarget, op |-> PatchOperations(timeout)[1].op,
                              path |-> PatchOperations(timeout)[1].path,
                              value |-> PatchOperations(timeout)[1].value]}
                    /\ updateCount' = updateCount + 1
                    /\ ri' = p[1]
                    /\ mi' = p[2]
                    /\ pc' = PcAt(p, updateCount')
                    /\ UNCHANGED thrown
           ELSE /\ thrown' = UpdateError(answer)
                /\ pc' = "failed"
                /\ UNCHANGED <<ri, mi, updateCount, patched>>
    /\ UNCHANGED <<config, outside, resolved, restApiId, source, result, apis, apiGatewayResources,
                   refs, deployments>>

\* The Error a failed run rejects with: `new Error(text)` or the error caught,
\* rethrown by the outer catch.  Its only field set by the function is message.
RethrownError == [message |-> thrown]

\* Mutant: a rejected createDeployment is logged and the run ends as done.
CreateDeploymentSwallowing ==
    /\ pc = "createDeployment"
    /\ \E ok \in BOOLEAN :
        /\ calls' = Append(calls, Call("createDeployment", <<restApiId>>, ok))
        /\ deployments' = IF ok
                          THEN Append(deployments,
                                   [restApiId |-> restApiId, stageName |-> stage,
                                    description |-> <<"Updated integration timeout to ">>
                                                     \o ToStr(timeout) \o <<sMs>>])
                          ELSE deployments
        /\ pc' = "done"
        /\ UNCHANGED thrown
    /\ UNCHANGED <<config, outside, resolved, restApiId, source, result, apis, apiGatewayResources,
                   ri, mi, updateCount, refs, rejection, patched>>

\* Mutant: a rejected createDeployment is tried again.
CreateDeploymentRetrying ==
    /\ pc = "createDeployment"
    /\ \E ok \in BOOLEAN :
        /\ calls' = Append(calls, Call("createDeployment", <<restApiId>>, ok))
        /\ IF ok
           THEN /\ deployments' = Append(deployments,
                        [restApiId |-> restApiId, stageName |-> stage,
                         description |-> <<"Updated integration timeout to ">>
                                          \o ToStr(timeout) \o <<sMs>>])
                /\ pc' = "done"
           ELSE /\ pc' = "createDeployment"
                /\ UNCHANGED deployments
        /\ UNCHANGED thrown
    /\ UNCHANGED <<config, outside, resolved, restApiId, source, result, apis, apiGatewayResources,
                   ri, mi, updateCount, refs, rejection, patched>>

\* The createDeployment await.
CreateDeployment ==
    /\ pc = "createDeployment"
    /\ \E ok \in BOOLEAN :
        /\ calls' = Append(calls, Call("createDeployment", <<restApiId>>, ok))
        /\ IF ok
           THEN /\ deployments' = Append(deployments,
                        [restApiId |-> restApiId, stageName |-> stage,
                         description |-> <<"Updated integration timeout to ">>
                                          \o ToStr(timeout) \o <<sMs>>])
                /\ pc' = "done"
                /\ UNCHANGED thrown
           ELSE /\ thrown' = RemoteErrorMessage
                /\ pc' = "failed"
                /\ UNCHANGED deployments
    /\ UNCHANGED <<config, outside, resolved, restApiId, source, result, apis, apiGatewayResources,
                   ri, mi, updateCount, refs, rejection, patched>>

\* Mutant: the timeout is set whatever the integration type.
GetMethodIntegrationAnyType(h, integ) ==
    IF Truthy(h.timeout)
    THEN [integ EXCEPT !.TimeoutInMillis = Times1000(h.timeout)]
    ELSE integ

\* The function the event-level plugin installs over getMethodIntegration,
\* applied to the http event h and to integ, the integration the original
\* function returned for h.
GetMethodIntegration(h, integ) ==
    LET type == IF h.integration # NoType THEN h.integration ELSE "AWS_PROXY"
    IN  IF Truthy(h.timeout) /\ type \in {"AWS", "LAMBDA", "AWS_PROXY"}
        THEN [integ EXCEPT !.TimeoutInMillis = Times1000(h.timeout)]
        ELSE integ

\* Event-level plugin: the http events and original integrations compiled.
InitEvent ==
    /\ variant = "part_001"
    /\ custom = [apiGatewayIntegrationTimeout |-> Undef, apiGatewayMaxTimeout |-> Undef,
                 apiGatewayId |-> NoId]
    /\ providerTimeout = Undef
    /\ service = sService
    /\ stage = sDev
    /\ pc = "getMethodIntegration"
    /\ requestedTimeout = Null
    /\ maxTimeout = Num(DefaultTimeout)
    /\ timeout = Null
    /\ restApiId = NoId
    /\ source = "None"
    /\ result = NoResult
    /\ apis = NoApis
    /\ apiGatewayResources = NoResources
    /\ ri = 0
    /\ mi = 0
    /\ updateCount = 0
    /\ refs = <<>>
    /\ rejection = NoError
    /\ thrown = NoError
    /\ calls = <<>>
    /\ patched = {}
    /\ deployments = <<>>
    /\ previous = NoPrevious
    /\ http \in [timeout : EventTimeouts, integration : EventTypes]
    /\ original \in OriginalIntegrations
    /\ integration = NoIntegration

\* Event-level plugin: one call of the wrapped getMethodIntegration.
CompileEvent ==
    /\ pc = "getMethodIntegration"
    /\ integration' = GetMethodIntegration(http, original)
    /\ pc' = "compiled"
    /\ UNCHANGED <<config, resolved, restApiId, source, result, apis, walk, thrown, calls,
                   previous, http, original>>

\* The hook fires again after a run that fetched the tree: the locals of the
\* function start afresh, the gateway keeps its tree, timeouts and deployments.
Rerun ==
    /\ pc \in {"done", "failed"}
    /\ previous = NoPrevious
    /\ apiGatewayResources.kind = "items"
    /\ previous' = [pc |-> pc, items |-> apiGatewayResources.items, refs |-> refs,
                    patched |-> patched]
    /\ pc' = "resolve"
    /\ requestedTimeout' = Null
    /\ maxTimeout' = Num(DefaultTimeout)
    /\ timeout' = Null
    /\ restApiId' = NoId
    /\ source' = "None"
    /\ result' = NoResult
    /\ apis' = NoApis
    /\ apiGatewayResources' = NoResources
    /\ ri' = 0
    /\ mi' = 0
    /\ updateCount' = 0
    /\ refs' = <<>>
    /\ rejection' = NoError
    /\ thrown' = NoError
    /\ calls' = <<>>
    /\ UNCHANGED <<config, http, original, integration, patched, deployments>>

NextResolve == Resolve
NextLocate == Resolve \/ DescribeStacks \/ GetRestApis \/ GetResources
Next ==
    \/ Resolve
    \/ DescribeStacksRun
    \/ GetRestApisRun
    \/ GetResources
    \/ GetMethod
    \/ UpdateIntegration
    \/ CreateDeployment

\* The resolver alone, over the wide configuration sets.
SpecResolve == InitResolve /\ [][NextResolve]_vars
\* The run up to and including the getResources call, over every discovery answer.
SpecLocate == Init /\ [][NextLocate]_vars
\* The whole run, over the discovery answers RunStackAnswers and RunApisAnswers.
Spec == Init /\ [][Next]_vars
\* Two runs of part_002 on the same gateway, its id configured, its tree unchanged.
InitRerun == InitLive /\ custom.apiGatewayId # NoId
NextRerun ==
    \/ Resolve
    \/ GetResources
    \/ GetMethod
    \/ UpdateIntegration
    \/ CreateDeployment
    \/ Rerun
SpecRerun == InitRerun /\ [][NextRerun]_vars
\* The whole run when every remote call returns and the function goes on after it.
SpecLive == InitLive /\ [][Next]_vars /\ WF_vars(Next)
\* The event-level plugin: every http event through the wrapped getMethodIntegration.
NextEvent == CompileEvent
SpecEvent == InitEvent /\ [][NextEvent]_vars

(***************************************************************************)
(* Properties.  What the specification says is written here from its own   *)
(* words (50, 29000, the precedence order), not with the model's operators.*)
(***************************************************************************)
Resolved == pc # "resolve"

IntOrAbsent(v) == v = Undef \/ IsNum(v)

\* Every timeout field of the configuration is an integer or absent.
IntegerConfig ==
    /\ IntOrAbsent(custom.apiGatewayIntegrationTimeout)
    /\ IntOrAbsent(custom.apiGatewayMaxTimeout)
    /\ IntOrAbsent(providerTimeout)

\* effectiveMax: maxMillis if set, 29000 otherwise.
SpecEffectiveMax ==
    IF custom.apiGatewayMaxTimeout = Undef THEN 29000 ELSE custom.apiGatewayMaxTimeout.n

\* r_effective: requestedMillis, else providerSecondsTimeout * 1000, else 29000.
SpecRequested ==
    IF custom.apiGatewayIntegrationTimeout # Undef THEN custom.apiGatewayIntegrationTimeout.n
    ELSE IF providerTimeout # Undef THEN providerTimeout.n * 1000
    ELSE 29000

Min2(a, b) == IF a <= b THEN a ELSE b
Max2(a, b) == IF a >= b THEN a ELSE b

\* C1: for every integer configuration whose effective maximum m is at least
\* 50, the resolved timeout is max(50, min(r_effective, m)), hence within
\* [50, m]; providerSecondsTimeout = 45 alone resolves to 29000.
C1_ResolvedIsClamped ==
    (Resolved /\ IntegerConfig /\ SpecEffectiveMax >= 50) =>
        /\ timeout = Num(Max2(50, Min2(SpecRequested, SpecEffectiveMax)))
        /\ 50 <= timeout.n /\ timeout.n <= SpecEffectiveMax
        /\ (/\ custom.apiGatewayIntegrationTimeout = Undef
            /\ custom.apiGatewayMaxTimeout = Undef
            /\ providerTimeout = Num(45)) => timeout = Num(29000)

C1_Witness ==
    /\ Resolved
    /\ custom.apiGatewayIntegrationTimeout = Undef
    /\ custom.apiGatewayMaxTimeout = Undef
    /\ providerTimeout = Num(45)
    /\ requestedTimeout = Num(45000)
    /\ timeout = Num(29000)

\* C2 as stated: for every configuration, a maxMillis below 50 included,
\* resolution raises no error and 50 <= millis <= effectiveMax.  (Stated for
\* integer configurations of the variant the claim cites.)
C2_Original ==
    (Resolved /\ variant = "part_002" /\ IntegerConfig) =>
        /\ thrown = NoError
        /\ IsNum(timeout)
        /\ 50 <= timeout.n /\ timeout.n <= SpecEffectiveMax

\* C2 amended: resolution raises no error and the resolved timeout never
\* exceeds effectiveMax; it is at least 50 when effectiveMax >= 50 and it is
\* effectiveMax itself when effectiveMax < 50.
C2_Amended ==
    (Resolved /\ variant = "part_002" /\ IntegerConfig) =>
        /\ thrown = NoError
        /\ IsNum(timeout)
        /\ timeout.n <= SpecEffectiveMax
        /\ SpecEffectiveMax >= 50 => timeout.n >= 50
        /\ SpecEffectiveMax < 50 => timeout.n = SpecEffectiveMax

C2_Witness ==
    /\ Resolved
    /\ variant = "part_002"
    /\ custom.apiGatewayIntegrationTimeout = Num(0)
    /\ custom.apiGatewayMaxTimeout = Num(10)
    /\ timeout = Num(10)

\* C3: the requested value before clamping is requestedMillis whenever that
\* field is defined (0 included), else providerSecondsTimeout * 1000 whenever
\* that is defined, else 29000; 15000 with provider 60 resolves to 15000 and no
\* inputs resolve to 29000.
C3_Precedence ==
    (Resolved /\ IntegerConfig) =>
        /\ requestedTimeout = Num(SpecRequested)
        /\ (/\ custom.apiGatewayIntegrationTimeout = Num(15000)
            /\ providerTimeout = Num(60)
            /\ custom.apiGatewayMaxTimeout = Undef) => timeout = Num(15000)
        /\ (/\ custom.apiGatewayIntegrationTimeout = Undef
            /\ providerTimeout = Undef
            /\ custom.apiGatewayMaxTimeout = Undef) => timeout = Num(29000)

C3_Witness ==
    /\ Resolved
    /\ custom.apiGatewayIntegrationTimeout = Num(0)
    /\ providerTimeout = Num(60)
    /\ requestedTimeout = Num(0)

\* C4: the upper clamp bound is maxMillis whenever maxMillis is present, for
\* every integer value of it, and 29000 when it is absent.
C4_MaxBound ==
    (Resolved /\ IntOrAbsent(custom.apiGatewayMaxTimeout)) =>
        maxTimeout = Num(SpecEffectiveMax)

\* The name hint `service-stage`, which is also the attempted stack name.
SpecNameHint == service \o <<"-">> \o stage

CallOps == {calls[i].op : i \in DOMAIN calls}

\* C5: with an explicit gateway id configured the run uses exactly that id and
\* never calls describeStacks or getRestApis; its first remote call is
\* getResources on that id.
C5_ExplicitIdBypassesDiscovery ==
    (Resolved /\ custom.apiGatewayId # NoId) =>
        /\ restApiId = custom.apiGatewayId
        /\ source = "Explicit"
        /\ CallOps \cap {"describeStacks", "getRestApis"} = {}
        /\ calls = <<>> => pc = "getResources"
        /\ calls # <<>> =>
              (calls[1].op = "getResources" /\ calls[1].arg = <<custom.apiGatewayId>>)

C5_Witness ==
    /\ custom.apiGatewayId = ApiId(3)
    /\ Len(calls) = 1
    /\ calls[1].op = "getResources"
    /\ calls[1].ok

\* Indices of the outputs whose key contains "RestApiId" or "ApiGatewayRestApi".
SpecMatchingOutputs ==
    { i \in 1..Len(result.Outputs) :
        \/ Includes(result.Outputs[i].OutputKey,
                    <<"R", "e", "s", "t", "A", "p", "i", "I", "d">>)
        \/ Includes(result.Outputs[i].OutputKey,
                    <<"A", "p", "i", "G", "a", "t", "e", "w", "a", "y",
                      "R", "e", "s", "t", "A", "p", "i">>) }

\* C6: with no explicit id, when describeStacks succeeds and some output key
\* contains "RestApiId" or "ApiGatewayRestApi", the gateway id is the value of
\* the first such output and discovery stops: getRestApis is never called.
C6_StackOutputWins ==
    /\ (result.kind = "outputs" /\ SpecMatchingOutputs # {}) =>
          /\ custom.apiGatewayId = NoId
          /\ \E i \in SpecMatchingOutputs :
                /\ \A j \in SpecMatchingOutputs : i <= j
                /\ restApiId = result.Outputs[i].OutputValue
          /\ source = "StackOutput"
          /\ pc = "getResources"
    /\ source = "StackOutput" =>
          /\ "getRestApis" \notin CallOps
          /\ calls[1].op = "describeStacks" /\ calls[1].ok
          /\ Len(calls) >= 2 => calls[2] = [op |-> "getResources", arg |-> <<restApiId>>,
                                            ok |-> calls[2].ok]

C6_Witness ==
    /\ result.kind = "outputs"
    /\ Len(result.Outputs) = 2
    /\ SpecMatchingOutputs = {1, 2}
    /\ result.Outputs[1].OutputValue = ApiId(2)
    /\ result.Outputs[2].OutputValue = ApiId(1)
    /\ restApiId = ApiId(2)

\* C7: a failure of describeStacks never fails the run: the error is swallowed
\* and the next remote call is getRestApis.
C7_StackFailureSwallowed ==
    \A i \in DOMAIN calls :
        (calls[i].op = "describeStacks" /\ ~calls[i].ok) =>
            /\ i = Len(calls) => (pc = "getRestApis" /\ thrown = NoError)
            /\ i < Len(calls) => calls[i + 1].op = "getRestApis"

C7_Witness ==
    /\ Len(calls) = 2
    /\ calls[1].op = "describeStacks" /\ ~calls[1].ok
    /\ calls[2].op = "getRestApis" /\ calls[2].ok
    /\ pc = "getResources"

\* Indices of the listed gateways named exactly like the hint, and of those
\* whose name contains both the service and the stage.
SpecExact == {i \in 1..Len(apis.items) : apis.items[i].name = SpecNameHint}
SpecPartial ==
    {i \in 1..Len(apis.items) :
        Includes(apis.items[i].name, service) /\ Includes(apis.items[i].name, stage)}
SpecFirst(S) == CHOOSE i \in S : \A j \in S : i <= j

\* C8: when discovery reaches the listing, a gateway named exactly like the
\* hint is selected whenever one exists, even behind a partial match; a
\* gateway whose name only contains both tokens is selected only when no exact
\* match exists, and then it is the first such gateway of the listing.  (The
\* src variant never selects by partial match.)
C8_ExactBeforePartial ==
    apis.kind = "items" =>
        /\ SpecExact # {} =>
              /\ restApiId = apis.items[SpecFirst(SpecExact)].id
              /\ source = "ExactNameMatch"
              /\ pc = "getResources"
        /\ source = "PartialNameMatch" =>
              /\ SpecExact = {} /\ SpecPartial # {}
              /\ restApiId = apis.items[SpecFirst(SpecPartial)].id
        /\ (variant = "part_002" /\ SpecExact = {} /\ SpecPartial # {}) =>
              /\ source = "PartialNameMatch"
              /\ restApiId = apis.items[SpecFirst(SpecPartial)].id
              /\ pc = "getResources"

C8_Witness ==
    /\ apis.kind = "items"
    /\ Len(apis.items) = 2
    /\ 1 \in SpecPartial /\ 1 \notin SpecExact
    /\ 2 \in SpecExact
    /\ restApiId = apis.items[2].id

\* The case of C9: no explicit id, a stack without matching output, and a
\* listing of exactly one gateway.
C9_Case ==
    /\ variant = "part_002"
    /\ custom.apiGatewayId = NoId
    /\ apis.kind = "items"
    /\ Len(apis.items) = 1
    /\ calls[1].op = "describeStacks" /\ calls[1].ok

\* C9 as stated: in that case the gateway is returned tagged SoleGateway.
C9_Original ==
    C9_Case => (restApiId = apis.items[1].id /\ source = "SoleGateway")

\* C9 amended: in that case the gateway is returned; it is tagged SoleGateway
\* when its name neither equals the hint nor contains both tokens, and
\* ExactNameMatch or PartialNameMatch otherwise.
C9_Amended ==
    C9_Case =>
        /\ restApiId = apis.items[1].id
        /\ pc = "getResources"
        /\ thrown = NoError
        /\ source = IF SpecExact # {} THEN "ExactNameMatch"
                    ELSE IF SpecPartial # {} THEN "PartialNameMatch"
                    ELSE "SoleGateway"

C9_Witness ==
    /\ C9_Case
    /\ SpecExact = {} /\ SpecPartial = {}
    /\ restApiId = ApiId(1)
    /\ source = "SoleGateway"

\* The case of C10: no explicit id, the listing answered, and it holds no
\* exact match, no partial match and a number of gateways other than one.
C10_Case ==
    /\ custom.apiGatewayId = NoId
    /\ apis.kind = "items"
    /\ SpecExact = {} /\ SpecPartial = {}
    /\ Len(apis.items) # 1

SpecPairs ==
    { <<restApiId, apiGatewayResources.items[p[1]].id, apiGatewayResources.items[p[1]].methods[p[2]]>> :
        p \in { q \in (1..Len(apiGatewayResources.items)) \X (1..Len(MethodNames)) :
                  /\ apiGatewayResources.items[q[1]].hasMethods
                  /\ q[2] <= Len(apiGatewayResources.items[q[1]].methods) } }

\* k_1 + ... + k_N: the number of methods the resources of a tree declare.
RECURSIVE SpecMethodCount(_)
SpecMethodCount(items) ==
    IF Len(items) = 0 THEN 0
    ELSE SpecMethodCount(SubSeq(items, 1, Len(items) - 1))
           + (IF items[Len(items)].hasMethods THEN Len(items[Len(items)].methods) ELSE 0)

\* The places of the log holding a call of one operation.
CallsOf(op) == { i \in DOMAIN calls : calls[i].op = op }

\* The (gateway, resource, method) a logged getMethod or updateIntegration call names.
TargetOf(c) == SubSeq(c.arg, 1, 3)

\* The pairs whose fetched method details reported a configured integration.
SpecIntegrations == { refs[k][1] : k \in { j \in DOMAIN refs : refs[j][2] } }

AllCallsOk == \A i \in DOMAIN calls : calls[i].ok

\* C11: in a finished run without a failing remote call over a tree whose
\* resources declare k_1..k_N methods, getMethod was issued exactly once for
\* each (resource, method) pair and k_1 + ... + k_N times in all, and
\* updateIntegration was issued exactly once for each pair whose details
\* reported an integration and for no other pair.
C11_EnumerationComplete ==
    (pc = "done" /\ apiGatewayResources.kind = "items" /\ AllCallsOk) =>
        /\ Cardinality(CallsOf("getMethod")) = SpecMethodCount(apiGatewayResources.items)
        /\ \A i \in CallsOf("getMethod") : calls[i].arg \in SpecPairs
        /\ \A t \in SpecPairs :
             Cardinality({ i \in CallsOf("getMethod") : calls[i].arg = t }) = 1
        /\ \A i \in CallsOf("updateIntegration") : TargetOf(calls[i]) \in SpecIntegrations
        /\ \A t \in SpecPairs :
             Cardinality({ i \in CallsOf("updateIntegration") : TargetOf(calls[i]) = t })
               = IF t \in SpecIntegrations THEN 1 ELSE 0

C11_Witness ==
    /\ pc = "done"
    /\ AllCallsOk
    /\ apiGatewayResources.kind = "items"
    /\ Len(apiGatewayResources.items) = 2
    /\ ~apiGatewayResources.items[1].hasMethods
    /\ Len(apiGatewayResources.items[2].methods) = 2
    /\ Cardinality(CallsOf("getMethod")) = 2
    /\ Cardinality(CallsOf("updateIntegration")) = 1

\* C12: updateIntegration is never issued for a pair whose method details
\* reported no integration; updateCount counts the accepted patches only, all
\* of them on pairs with an integration; and a run is never failed right after
\* the details of such a pair were fetched.
C12_NoPatchWithoutIntegration ==
    /\ \A k \in DOMAIN refs : ~refs[k][2] =>
          /\ \A i \in CallsOf("updateIntegration") : TargetOf(calls[i]) # refs[k][1]
          /\ (calls[Len(calls)].op = "getMethod" /\ calls[Len(calls)].arg = refs[k][1])
                => (pc # "failed" /\ pc # "updateIntegration" /\ thrown = NoError)
    /\ updateCount = Cardinality({ i \in CallsOf("updateIntegration") : calls[i].ok })
    /\ updateCount <= Cardinality(SpecIntegrations)

C12_Witness ==
    /\ pc = "done"
    /\ Len(refs) = 2
    /\ ~refs[1][2]
    /\ refs[2][2]
    /\ updateCount = 1
    /\ Cardinality(CallsOf("updateIntegration")) = 1

\* The timeout the resolver owes for the configuration of the run.
SpecResolvedMillis == Max2(50, Min2(SpecRequested, SpecEffectiveMax))

\* The patch document a logged updateIntegration call carries.
PatchOf(c) == c.arg[4]

\* C13: every updateIntegration call carries exactly one operation, a replace
\* of /timeoutInMillis whose value is the decimal text of the resolved
\* timeout; that timeout is the one the resolver computed before the first
\* remote call, the same for every call of the run, and the one the
\* deployment description names.
C13_PatchCarriesResolvedTimeout ==
    /\ Resolved => timeout = Num(SpecResolvedMillis)
    /\ deployments # <<>> => CallsOf("updateIntegration") # {}
    /\ CallsOf("updateIntegration") # {} =>
          LET value == PatchOf(calls[CHOOSE i \in CallsOf("updateIntegration") : TRUE])[1].value
          IN  /\ value[1] # "0"
              /\ DecimalValue(value) = SpecResolvedMillis
              /\ \A i \in CallsOf("updateIntegration") :
                    PatchOf(calls[i])
                      = <<[op |-> "replace", path |-> "/timeoutInMillis", value |-> value]>>
              /\ \A d \in DOMAIN deployments :
                    deployments[d].description
                      = <<"Updated integration timeout to ">> \o value \o <<" ms">>

C13_Witness ==
    /\ pc = "done"
    /\ custom.apiGatewayIntegrationTimeout = Num(90000)
    /\ custom.apiGatewayMaxTimeout = Num(60000)
    /\ Cardinality(CallsOf("updateIntegration")) = 2
    /\ \A i \in CallsOf("updateIntegration") :
          PatchOf(calls[i])[1].value = <<"6", "0", "0", "0", "0">>
    /\ Len(deployments) = 1

\* The account ceilings the rejections of UpdateErrorMessages can name.
SpecCeilings ==
    { <<"6", "0", "0", "0", "0">>, <<"6", "0">>, <<"2", "9">> }

\* The rejection holds "between 50 ms and N ms" for the decimal number N.
SpecQuotaShape(msg, digits) ==
    msg # NoMessage /\ Includes(msg, <<sBetween, " ">> \o digits \o <<sMs>>)

\* C14: when updateIntegration is rejected with a message holding
\* "between 50 ms and N ms", the run fails with the quota error naming N:
\* 60000 for "... between 50 ms and 60000 ms".
C14_QuotaCeilingParsed ==
    \A digits \in SpecCeilings :
        (pc = "failed" /\ rejection # NoError /\ SpecQuotaShape(rejection, digits)) =>
            thrown = <<"Timeout exceeds your account's service quota limit of ">>
                         \o digits \o <<" ms">>

C14_Witness ==
    /\ pc = "failed"
    /\ rejection = <<"Timeout should be ", sBetween, " ", "6", "0", "0", "0", "0", sMs>>
    /\ thrown = <<"Timeout exceeds your account's service quota limit of ",
                  "6", "0", "0", "0", "0", " ms">>

\* C15: when updateIntegration is rejected with an error that has no message,
\* another message, or "between 50 ms and" not followed by a number and " ms",
\* the run fails with that very error, and the rejected patch was issued once.
C15_OtherFailurePropagated ==
    (/\ pc = "failed"
     /\ rejection # NoError
     /\ \A digits \in SpecCeilings : ~SpecQuotaShape(rejection, digits)) =>
        /\ thrown = rejection
        /\ calls[Len(calls)].op = "updateIntegration"
        /\ ~calls[Len(calls)].ok
        /\ Cardinality({ i \in CallsOf("updateIntegration") :
                           TargetOf(calls[i]) = TargetOf(calls[Len(calls)]) }) = 1

C15_Witness ==
    /\ pc = "failed"
    /\ rejection = <<"Timeout should be ", sBetween, " ", "x", sMs>>
    /\ thrown = rejection
    /\ calls[Len(calls)].op = "updateIntegration"

\* C16: a rejected updateIntegration is the last remote call of its run, no
\* getMethod, updateIntegration or createDeployment follows it, and the run
\* is failed from then on.
C16_FailedPatchStopsRun ==
    \A i \in CallsOf("updateIntegration") :
        ~calls[i].ok =>
            /\ i = Len(calls)
            /\ pc = "failed"
            /\ thrown # NoError
            /\ deployments = <<>>

C16_Witness ==
    /\ pc = "failed"
    /\ calls[Len(calls)].op = "updateIntegration"
    /\ ~calls[Len(calls)].ok
    /\ NextPos(apiGatewayResources.items, ri, mi) # <<0, 0>>

\* C17: in a run failed after k accepted patches, the remote state holds the
\* resolved timeout on exactly the k integrations whose patch was accepted:
\* every logged call is one of the six calls of the run, none of them undoes
\* a patch.
C17_PartialApplicationKept ==
    pc = "failed" =>
        /\ { p.target : p \in patched }
             = { TargetOf(calls[i]) : i \in { j \in CallsOf("updateIntegration") : calls[j].ok } }
        /\ Cardinality(patched) = updateCount
        /\ \A p \in patched :
              /\ p.op = "replace"
              /\ p.path = "/timeoutInMillis"
              /\ DecimalValue(p.value) = SpecResolvedMillis
        /\ CallOps \subseteq { "describeStacks", "getRestApis", "getResources",
                               "getMethod", "updateIntegration", "createDeployment" }

C17_Witness ==
    /\ pc = "failed"
    /\ Cardinality(patched) = 1
    /\ calls[Len(calls)].op = "updateIntegration"
    /\ ~calls[Len(calls)].ok
    /\ \A p \in patched : p.target # TargetOf(calls[Len(calls)])

\* The walk is over: the details of every declared pair were fetched and the
\* patch of every pair with an integration was accepted.
SpecWalkComplete ==
    /\ apiGatewayResources.kind = "items"
    /\ { calls[i].arg : i \in { j \in CallsOf("getMethod") : calls[j].ok } } = SpecPairs
    /\ { TargetOf(calls[i]) : i \in { j \in CallsOf("updateIntegration") : calls[j].ok } }
         = SpecIntegrations

\* C18 as stated: createDeployment is called only when updateCount > 0 and
\* after the whole walk, exactly once in a run whose patches were all accepted
\* and of which there is at least one, and never after a failed remote call.
C18_Original ==
    /\ \A i \in CallsOf("createDeployment") :
          /\ updateCount > 0
          /\ SpecWalkComplete
          /\ i = Len(calls)
          /\ \A j \in 1..(i - 1) : calls[j].ok
    /\ (pc = "done" /\ updateCount > 0) => Cardinality(CallsOf("createDeployment")) = 1

\* C18 amended: createDeployment is called only when updateCount > 0 and after
\* the whole walk, exactly once in a run whose patches were all accepted and of
\* which there is at least one, and never after a failed remote call other
\* than describeStacks, whose failure the run survives.
C18_Amended ==
    /\ \A i \in CallsOf("createDeployment") :
          /\ updateCount > 0
          /\ SpecWalkComplete
          /\ i = Len(calls)
          /\ \A j \in 1..(i - 1) : calls[j].ok \/ calls[j].op = "describeStacks"
    /\ (pc = "done" /\ updateCount > 0) => Cardinality(CallsOf("createDeployment")) = 1

C18_Witness ==
    /\ pc = "done"
    /\ calls[1].op = "describeStacks"
    /\ ~calls[1].ok
    /\ updateCount = 2
    /\ calls[Len(calls)].op = "createDeployment"
    /\ calls[Len(calls)].ok

\* C19: when the fetched tree has no resource, or no declared method, or only
\* methods whose details report no integration, the run goes on without error,
\* updateCount stays 0, neither updateIntegration nor createDeployment is
\* called, and the run is done once the details of every pair were fetched.
C19_NothingToUpdate ==
    (/\ variant = "part_002"
     /\ apiGatewayResources.kind \in {"items", "noItems"}
     /\ SpecIntegrations = {}
     /\ \A i \in CallsOf("getMethod") : calls[i].ok) =>
        /\ pc \in {"getMethod", "done"}
        /\ thrown = NoError
        /\ updateCount = 0
        /\ deployments = <<>>
        /\ CallsOf("updateIntegration") = {}
        /\ CallsOf("createDeployment") = {}
        /\ Len(refs) = SpecMethodCount(apiGatewayResources.items) => pc = "done"

C19_Witness ==
    /\ variant = "part_002"
    /\ pc = "done"
    /\ apiGatewayResources.kind = "items"
    /\ Len(refs) = 2
    /\ SpecIntegrations = {}
    /\ updateCount = 0

\* C20: in a finished run without a failing remote call over a tree with
\* n >= 1 integrations, updateCount is n, the deployment was created once and
\* the timeout set and reported is the resolved one; with
\* apiGatewayIntegrationTimeout 90000, apiGatewayMaxTimeout 60000 and two
\* integrations: updateCount 2, timeout 60000, one deployment.
C20_AllApplied ==
    (/\ pc \in {"done", "failed"}
     /\ AllCallsOk
     /\ apiGatewayResources.kind = "items"
     /\ Len(refs) = SpecMethodCount(apiGatewayResources.items)
     /\ Cardinality(SpecIntegrations) >= 1) =>
        /\ pc = "done"
        /\ updateCount = Cardinality(SpecIntegrations)
        /\ Len(deployments) = 1
        /\ timeout = Num(SpecResolvedMillis)
        /\ \A p \in patched : p.value = ToStr(timeout)
        /\ (/\ custom.apiGatewayIntegrationTimeout = Num(90000)
            /\ custom.apiGatewayMaxTimeout = Num(60000)
            /\ Cardinality(SpecIntegrations) = 2) =>
               (updateCount = 2 /\ timeout = Num(60000) /\ Len(deployments) = 1)

C20_Witness ==
    /\ pc = "done"
    /\ AllCallsOk
    /\ custom.apiGatewayIntegrationTimeout = Num(90000)
    /\ custom.apiGatewayMaxTimeout = Num(60000)
    /\ Cardinality(SpecIntegrations) = 2
    /\ updateCount = 2
    /\ timeout = Num(60000)
    /\ Len(deployments) = 1


\* C21: a run failed after some patches were accepted rejects with an error
\* that carries the number of patches accepted up to the failure.
C21_FailureCarriesCount ==
    (pc = "failed" /\ updateCount >= 1) =>
        /\ "updateCount" \in DOMAIN RethrownError
        /\ RethrownError.updateCount = updateCount


\* The pairs known to have an integration from the details either run fetched.
SpecKnownIntegrations ==
    SpecIntegrations
      \cup { previous.refs[k][1] : k \in { j \in DOMAIN previous.refs : previous.refs[j][2] } }

\* C22: when a run that follows another on the same configuration and tree
\* ends as done, every integration of the tree has the resolved timeout and
\* nothing else has one, whether the run before ended as done or failed after
\* some patches; after a run that ended as done the timeouts are those it left.
C22_RerunIdempotent ==
    (previous # NoPrevious /\ pc = "done") =>
        /\ { p.target : p \in patched } = SpecKnownIntegrations
        /\ Cardinality(patched) = Cardinality(SpecKnownIntegrations)
        /\ \A p \in patched :
              /\ p.path = "/timeoutInMillis"
              /\ DecimalValue(p.value) = SpecResolvedMillis
        /\ previous.pc = "done" => patched = previous.patched

C22_Witness ==
    /\ previous.pc = "failed"
    /\ Cardinality(previous.patched) = 1
    /\ pc = "done"
    /\ Cardinality(patched) = 2
    /\ updateCount = 2

\* The calls whose failure ends the run: every one but describeStacks and
\* updateIntegration, which have a catch block of their own.
SpecFatalOps == {"getRestApis", "getResources", "getMethod", "createDeployment"}

\* C23: a failed getRestApis, getResources, getMethod or createDeployment is
\* the last remote call of its run, the run is failed and rejects with the
\* message of that failure (under the prefix of the discovery catch block for
\* getRestApis); after a rejected createDeployment every integration found
\* is patched and no deployment exists.
C23_FatalRemoteFailures ==
    \A i \in DOMAIN calls :
        (calls[i].op \in SpecFatalOps /\ ~calls[i].ok) =>
            /\ i = Len(calls)
            /\ pc = "failed"
            /\ thrown = IF calls[i].op = "getRestApis"
                        THEN <<"Could not find REST API ID: ">> \o RemoteErrorMessage
                        ELSE RemoteErrorMessage
            /\ calls[i].op = "createDeployment" =>
                  /\ updateCount >= 1
                  /\ { p.target : p \in patched } = SpecIntegrations
                  /\ Cardinality(patched) = updateCount
                  /\ deployments = <<>>

C23_Witness ==
    /\ pc = "failed"
    /\ calls[Len(calls)].op = "createDeployment"
    /\ ~calls[Len(calls)].ok
    /\ Cardinality(patched) = 2
    /\ deployments = <<>>

\* C24: in one run describeStacks, getRestApis, getResources and
\* createDeployment are each called at most once, and getMethod and
\* updateIntegration at most once for each (resource, method) pair, whatever
\* failed.
C24_NoRetry ==
    /\ \A op \in {"describeStacks", "getRestApis", "getResources", "createDeployment"} :
          Cardinality(CallsOf(op)) <= 1
    /\ \A op \in {"getMethod", "updateIntegration"} :
          Cardinality({ TargetOf(calls[i]) : i \in CallsOf(op) }) = Cardinality(CallsOf(op))

C24_Witness ==
    /\ pc = "failed"
    /\ Len(calls) = 6
    /\ calls[1].op = "describeStacks" /\ ~calls[1].ok
    /\ calls[6].op = "createDeployment" /\ ~calls[6].ok
    /\ Cardinality(CallsOf("updateIntegration")) = 1




\* The state of the orchestrator a remote call belongs to: 1 Locating,
\* 2 Enumerating, 3 Patching, 4 Deploying.
SpecStateOf(op) ==
    CASE op \in {"describeStacks", "getRestApis"} -> 1
      [] op \in {"getResources", "getMethod"} -> 2
      [] op = "updateIntegration" -> 3
      [] op = "createDeployment" -> 4

\* The same with the walk as one state: fetching the details of a pair and
\* patching it alternate.
SpecWalkStateOf(op) == IF op = "getMethod" THEN 3 ELSE SpecStateOf(op)

\* What C25 says besides the order: discovery comes first unless an id is
\* configured, Deploying is skipped exactly when updateCount is 0, no step
\* leaves Done or Failed, and a run does not fail before its first remote call.
SpecStatesOtherwise ==
    /\ (calls # <<>> /\ custom.apiGatewayId = NoId) => calls[1].op = "describeStacks"
    /\ pc = "done" => (CallsOf("createDeployment") = {} <=> updateCount = 0)
    /\ pc \in {"done", "failed"} => ~ENABLED Next
    /\ pc = "failed" => calls # <<>>

\* C25 as stated: a run goes through Locating, Enumerating, Patching,
\* Deploying in that order and never back.
C25_Original ==
    /\ \A i \in 1..(Len(calls) - 1) :
          SpecStateOf(calls[i].op) <= SpecStateOf(calls[i + 1].op)
    /\ SpecStatesOtherwise

\* C25 amended: a run goes through Locating, the fetch of the tree, the walk
\* and Deploying in that order and never back, and within the walk it goes
\* back from Patching to Enumerating for every further pair.
C25_Amended ==
    /\ \A i \in 1..(Len(calls) - 1) :
          SpecWalkStateOf(calls[i].op) <= SpecWalkStateOf(calls[i + 1].op)
    /\ SpecStatesOtherwise

C25_Witness ==
    /\ pc = "done"
    /\ Len(calls) = 8
    /\ calls[1].op = "describeStacks"
    /\ calls[2].op = "getRestApis"
    /\ calls[3].op = "getResources"
    /\ calls[4].op = "getMethod"
    /\ calls[5].op = "updateIntegration"
    /\ calls[6].op = "getMethod"
    /\ calls[7].op = "getMethod"
    /\ calls[8].op = "createDeployment"

\* The (resource, method) pairs of a tree in the order of the listing.
RECURSIVE SpecPairsInOrder(_)
SpecPairsInOrder(items) ==
    IF Len(items) = 0 THEN <<>>
    ELSE LET last == items[Len(items)]
         IN  SpecPairsInOrder(SubSeq(items, 1, Len(items) - 1))
               \o (IF last.hasMethods
                   THEN [m \in 1..Len(last.methods) |-> <<restApiId, last.id, last.methods[m]>>]
                   ELSE <<>>)

\* C26 as stated: the details of every pair of the tree are fetched before
\* the first updateIntegration, and a failed getMethod leaves nothing patched.
C26_Original ==
    /\ \A i \in CallsOf("updateIntegration") :
          Cardinality({ j \in CallsOf("getMethod") : j < i })
            = SpecMethodCount(apiGatewayResources.items)
    /\ (pc = "failed" /\ calls[Len(calls)].op = "getMethod") => patched = {}

\* C26 amended: the details of a pair are fetched right before that pair is
\* patched: every updateIntegration directly follows the accepted getMethod of
\* the same pair, and the pairs fetched so far are the first pairs of the
\* tree in listing order.
C26_Amended ==
    /\ \A i \in CallsOf("updateIntegration") :
          /\ i > 1
          /\ calls[i - 1] = [op |-> "getMethod", arg |-> TargetOf(calls[i]), ok |-> TRUE]
    /\ refs # <<>> =>
          /\ Len(refs) <= SpecMethodCount(apiGatewayResources.items)
          /\ [k \in DOMAIN refs |-> refs[k][1]]
                = SubSeq(SpecPairsInOrder(apiGatewayResources.items), 1, Len(refs))

C26_Witness ==
    /\ pc = "failed"
    /\ calls[Len(calls)].op = "getMethod"
    /\ ~calls[Len(calls)].ok
    /\ Cardinality(patched) = 1
    /\ Len(refs) = 1


\* C27: provided every remote call returns, a run ends as done or failed, and
\* up to there it fetched the details of no more pairs than the tree has and
\* issued no more calls than one pass over the tree takes.
C27_RunTerminates ==
    /\ [](apiGatewayResources.kind = "items" =>
            /\ Cardinality(CallsOf("getMethod")) <= SpecMethodCount(apiGatewayResources.items)
            /\ Len(calls) <= 4 + 2 * SpecMethodCount(apiGatewayResources.items))
    /\ <>(pc \in {"done", "failed"})

C27_Witness ==
    /\ pc = "done"
    /\ SpecMethodCount(apiGatewayResources.items) = 4
    /\ Len(calls) = 4 + 2 * 4

\* C28: at every point of a run updateCount is the number of updateIntegration
\* calls accepted so far, it is at most the number of pairs found with an
\* integration, and no step of the run lowers it.
C28_CountTracksAcceptedPatches ==
    /\ [](/\ updateCount = Cardinality({ i \in DOMAIN calls :
                               calls[i].op = "updateIntegration" /\ calls[i].ok })
          /\ updateCount <= Cardinality({ k \in DOMAIN refs : refs[k][2] }))
    /\ [][updateCount' >= updateCount]_vars

C28_Witness ==
    /\ pc = "failed"
    /\ updateCount = 1
    /\ Cardinality(CallsOf("updateIntegration")) = 2
    /\ Cardinality({ k \in DOMAIN refs : refs[k][2] }) = 2

\* The gateway the locator owes: the configured id, else the id of the stack
\* output or of the listed gateway named like the hint, which the answers of
\* the run specification both give as ApiId(1); the listing also has ApiId(2).
SpecChosenId == IF custom.apiGatewayId # NoId THEN custom.apiGatewayId ELSE ApiId(1)

SpecGatewayOps == {"getResources", "getMethod", "updateIntegration", "createDeployment"}

\* C29: getResources, every getMethod, every updateIntegration and
\* createDeployment of a run name the one gateway id the locator chose, which
\* stays the same to the end of the run; every timeout set and every
\* deployment created is on that gateway, none on another listed gateway.
C29_SingleGateway ==
    /\ \A i \in DOMAIN calls :
          calls[i].op \in SpecGatewayOps =>
              (calls[i].arg[1] = SpecChosenId /\ restApiId = SpecChosenId)
    /\ \A p \in patched : p.target[1] = SpecChosenId
    /\ \A d \in DOMAIN deployments : deployments[d].restApiId = SpecChosenId

C29_Witness ==
    /\ pc = "done"
    /\ Len(calls) >= 2
    /\ calls[2].op = "getRestApis"
    /\ calls[2].ok
    /\ restApiId = ApiId(1)
    /\ Cardinality(patched) = 2
    /\ Len(deployments) = 1

\* The http event asks for a timeout: a number of seconds other than 0.
SpecTimeoutSet == IsNum(http.timeout) /\ http.timeout.n # 0

\* The integration type of the http event, AWS_PROXY when unset.
SpecEventType == IF http.integration = NoType THEN "AWS_PROXY" ELSE http.integration

\* C30: the wrapped getMethodIntegration returns the original integration with
\* TimeoutInMillis set to http.timeout * 1000 exactly when http.timeout is a
\* non-zero value and the integration type, AWS_PROXY when unset, is AWS,
\* LAMBDA or AWS_PROXY; in every other case it returns the original
\* integration as it is.
C30_EventTimeoutApplied ==
    pc = "compiled" =>
        IF SpecTimeoutSet /\ SpecEventType \in {"AWS", "LAMBDA", "AWS_PROXY"}
        THEN /\ integration.TimeoutInMillis = Num(http.timeout.n * 1000)
             /\ integration.IntegrationHttpMethod = original.IntegrationHttpMethod
        ELSE integration = original

C30_Witness ==
    /\ pc = "compiled"
    /\ http = [timeout |-> Num(60), integration |-> NoType]
    /\ original.TimeoutInMillis = Undef
    /\ integration.TimeoutInMillis = Num(60000)
====
